---- MODULE Spec2Model ----
(***************************************************************************)
(* A model of list_kb_documents.py: the DocumentLister class (configuration*)
(* resolution, the HTTP client, knowledge-base lookup, document pagination,*)
(* display and save) and the command-line program main().                  *)
(*                                                                         *)
(* Strings whose emptiness or characters matter are sequences of tokens    *)
(* (a token is one character, or an opaque chunk such as "http://flag").   *)
(* An optional value (a Python None or a value) is None or Some(v).        *)
(* The server and the operating system are the environment: their answers  *)
(* are chosen nondeterministically when a request is answered.             *)
(***************************************************************************)
EXTENDS Integers, Sequences, FiniteSets, TLC

VARIABLES
    args,          \* the parsed command line (argparse namespace)
    config_file,   \* the configuration file named by --config, as found on disk
    environ,       \* the process environment (RAGFLOW_API_URL, RAGFLOW_API_KEY)
    server_kbs,    \* the server's knowledge-base collection
    pc,            \* the position of the program
    exc,           \* the exception in flight, None when there is none
    exit_code,     \* the process exit code, None while running
    lister,        \* the constructed DocumentLister (api_url, api_key), None before
    picked,        \* __init__'s locals api_url, api_key at line 72, None before
    requests,      \* every HTTP request issued so far, in order
    responses,     \* every answer received so far, in order
    caller,        \* who called list_knowledge_bases
    name,          \* get_kb_by_name's argument
    kbs,           \* list_knowledge_bases' return value
    kb,            \* get_kb_by_name's return value
    kb_id,         \* main's kb_id / list_documents' kb_id
    page_size,     \* list_documents' page_size
    page,          \* list_documents' page
    all_docs,      \* list_documents' accumulator
    docs,          \* list_documents' return value, None before it returns
    stdout,        \* the notices printed so far, in order
    displayed,     \* what display_documents rendered, None when nothing
    file           \* the output file's content, None when there is no file

vars == <<args, config_file, environ, server_kbs, pc, exc, exit_code, lister,
          picked, requests, responses, caller, name, kbs, kb, kb_id, page_size,
          page, all_docs, docs, stdout, displayed, file>>

----------------------------------------------------------------------------
(* Bounds of the model.                                                    *)

\* the largest page size the pager is called with, besides the default
MaxPageSize == 2
\* the pager stops being followed after this many pages
MaxPages == 4
\* the longest knowledge-base name and search name
MaxNameLen == 2
\* the largest knowledge-base collection
MaxKbs == 2
\* the length of a short page of a large page size
ShortPageLen == 37

----------------------------------------------------------------------------
(* Values.                                                                 *)

None == <<>>
Some(v) == <<v>>
Val(o) == o[1]

\* Python truthiness of an optional string: None and '' are false
Truthy(o) == o # None /\ Val(o) # <<>>

\* dict.get(key, default) on an optional field
GetOr(o, default) == IF o = None THEN default ELSE Val(o)

SeqsUpTo(S, n) == UNION {[1..k -> S] : k \in 0..n}

\* str.rstrip('/')
RECURSIVE RStrip(_)
RStrip(s) ==
    IF s # <<>> /\ s[Len(s)] = "/" THEN RStrip(SubSeq(s, 1, Len(s) - 1)) ELSE s

\* str.lstrip('/')
RECURSIVE LStrip(_)
LStrip(s) == IF s # <<>> /\ Head(s) = "/" THEN LStrip(Tail(s)) ELSE s

\* str.lower(), character by character
LowerChar(c) == CASE c = "A" -> "a" [] c = "B" -> "b" [] OTHER -> c
Lower(s) == [i \in 1..Len(s) |-> LowerChar(s[i])]

\* Python's  s in t  on strings
IsSubstring(s, t) ==
    \E i \in 0..(Len(t) - Len(s)) : SubSeq(t, i + 1, i + Len(s)) = s

----------------------------------------------------------------------------
(* DocumentLister.__init__: configuration resolution.                      *)

DefaultApiUrl == <<"http://localhost:9380">>

\* (variant: the file's field replaces the value whether it is set or not)
FromConfigMut(cur, cfg, fld) == cfg[fld]
\* lines 53-56: a field of the parsed file replaces a false value
FromConfig(cur, cfg, fld) == IF ~Truthy(cur) THEN cfg[fld] ELSE cur

\* lines 49-59: the file is read only if it exists; a file that cannot be
\* opened or parsed raises inside the try block and assigns nothing
AfterConfigFile(a_url, a_key, cfg) ==
    IF cfg.kind = "dict"
    THEN [api_url |-> FromConfig(a_url, cfg, "api_url"),
          api_key |-> FromConfig(a_key, cfg, "api_key")]
    ELSE [api_url |-> a_url, api_key |-> a_key]

\* lines 62-65: os.getenv replaces a false value
FromEnv(cur, envval) == IF ~Truthy(cur) THEN envval ELSE cur

\* lines 68-70
WithDefaultUrl(cur) == IF ~Truthy(cur) THEN Some(DefaultApiUrl) ELSE cur

\* lines 49-70: the locals api_url, api_key when line 72 is reached
ResolveLocals(a_url, a_key, cfg, env) ==
    LET s1 == AfterConfigFile(a_url, a_key, cfg)
    IN  [api_url |-> WithDefaultUrl(FromEnv(s1.api_url, env.RAGFLOW_API_URL)),
         api_key |-> FromEnv(s1.api_key, env.RAGFLOW_API_KEY)]

\* (variant: only an absent key is refused, an empty one is accepted)
KeyMissingMut(api_key) == api_key = None
\* line 72: the condition under which __init__ raises ValueError
KeyMissing(api_key) == ~Truthy(api_key)

\* lines 57, 59, 70: the notices printed while resolving
ResolveNotices(a_url, a_key, cfg, env) ==
    LET s1 == AfterConfigFile(a_url, a_key, cfg)
    IN  (CASE cfg.kind = "dict" -> <<"config_read">>
           [] cfg.kind = "unreadable" -> <<"config_failed">>
           [] OTHER -> <<>>)
        \o (IF ~Truthy(FromEnv(s1.api_url, env.RAGFLOW_API_URL))
            THEN <<"default_url">> ELSE <<>>)

\* lines 40-86
Construct ==
    /\ pc = "start"
    /\ LET loc == ResolveLocals(args.api_url, args.api_key, config_file, environ)
           out == ResolveNotices(args.api_url, args.api_key, config_file, environ)
       IN  /\ picked' = Some(loc)
           /\ IF KeyMissing(loc.api_key)
              THEN /\ exc' = Some("ValueError")
                   /\ pc' = "raised"
                   /\ stdout' = stdout \o out
                   /\ UNCHANGED lister
              ELSE /\ lister' = Some([api_url |-> RStrip(Val(loc.api_url)),
                                      api_key |-> Val(loc.api_key)])
                   /\ stdout' = stdout \o out \o <<"connected">>
                   /\ pc' = "constructed"
                   /\ UNCHANGED exc
    /\ UNCHANGED <<args, config_file, environ, server_kbs, exit_code, requests,
                   responses, caller, name, kbs, kb, kb_id, page_size, page,
                   all_docs, docs, displayed, file>>

----------------------------------------------------------------------------
(* The HTTP client and the server's answers.                               *)

\* the exceptions of the program; KeyboardInterrupt is no subclass of Exception
RequestException == "RequestException"
KeyboardInterrupt == "KeyboardInterrupt"
\* (variant: handlers that catch ValueError alone)
OnlyValueError(e) == e = "ValueError"
\* what  except Exception  catches
IsException(e) == e \in {"ValueError", RequestException}

\* line 90
Url(base, endpoint) == base \o <<"/">> \o LStrip(endpoint)

\* lines 81-84, 90-92: the request as sent
HttpRequest(endpoint, path, id, p, ps) ==
    [endpoint |-> endpoint,
     url |-> Url(Val(lister).api_url, path),
     authorization |-> <<"Bearer ">> \o Val(lister).api_key,
     kb_id |-> id, page |-> p, page_size |-> ps]

\* An answer: the transport's outcome and, for an HTTP success, the body's
\* code (None: no code field) and data (None: no data field).
Answer(http, code, data) == [http |-> http, code |-> code, data |-> data]

\* the answers that carry no data: an application error with a non-zero
\* code, a body with no code, a non-2xx status, a network failure
ErrorAnswers ==
    { Answer("ok", Some(102), None), Answer("ok", None, None),
      Answer("status_error", None, None), Answer("network_error", None, None) }

IsAppError(a) == a.http = "ok" /\ a.code # Some(0)
IsTransportError(a) == a.http \in {"status_error", "network_error"}
IsSuccess(a) == a.http = "ok" /\ a.code = Some(0)

\* the user's interrupt arriving while a request is in flight
InterruptEvent == Answer("interrupted", None, None)

\* lines 91-97: raise_for_status and the transport raise RequestException,
\* which _request reports and re-raises; a KeyboardInterrupt passes through
\* unreported; otherwise the parsed body is returned
RequestOutcome(a) ==
    CASE a.http = "ok" ->
           [raised |-> FALSE, exc |-> None, out |-> <<>>]
      [] a.http = "interrupted" ->
           [raised |-> TRUE, exc |-> Some(KeyboardInterrupt), out |-> <<>>]
      [] OTHER ->
           [raised |-> TRUE, exc |-> Some(RequestException), out |-> <<"request_error">>]

----------------------------------------------------------------------------
(* Knowledge-base lookup.                                                  *)

\* the i-th entry's id: i copies of "k"
KbIdAt(i) == [j \in 1..i |-> "k"]

\* A collection with the given (optional) names, ids by position
KbListOf(names) ==
    [i \in 1..Len(names) |-> [id |-> Some(KbIdAt(i)), name |-> names[i]]]

KbAnswers == { Answer("ok", Some(0), Some(server_kbs)), Answer("ok", Some(0), None) }
                 \cup ErrorAnswers

\* line 103
KbCodeOk(a) == a.code = Some(0)

\* (variant: no handler around the request)
ListKbsCatchesMut(e) == FALSE
\* line 107: except Exception
ListKbsCatches(e) == IsException(e)

\* lines 99-109: list_knowledge_bases, given the server's answer
ListKnowledgeBases(a) ==
    LET r == RequestOutcome(a)
    IN  IF r.raised
        THEN IF ListKbsCatches(Val(r.exc))
             THEN [ret |-> <<>>, exc |-> None, out |-> r.out \o <<"kbs_failed">>]
             ELSE [ret |-> <<>>, exc |-> r.exc, out |-> r.out]
        ELSE IF KbCodeOk(a)
             THEN [ret |-> GetOr(a.data, <<>>), exc |-> None, out |-> <<>>]
             ELSE [ret |-> <<>>, exc |-> None, out |-> <<"api_error">>]

\* line 102, lines 88-92
KbsSend ==
    /\ pc = "kbs_send"
    /\ requests' = Append(requests, HttpRequest("datasets", <<"/", "datasets">>, None, 0, 0))
    /\ pc' = "kbs_wait"
    /\ UNCHANGED <<args, config_file, environ, server_kbs, exc, exit_code, lister,
                   picked, responses, caller, name, kbs, kb, kb_id, page_size,
                   page, all_docs, docs, stdout, displayed, file>>

\* lines 92-97, 103-109: the rest of list_knowledge_bases on the answer a
KbsAnswered(a) ==
    /\ pc = "kbs_wait"
    /\ LET r == ListKnowledgeBases(a)
       IN  /\ responses' = Append(responses, a)
           /\ stdout' = stdout \o r.out
           /\ exc' = r.exc
           /\ IF r.exc = None
              THEN kbs' = Some(r.ret) /\ pc' = "kbs_returned"
              ELSE UNCHANGED kbs /\ pc' = "raised"
    /\ UNCHANGED <<args, config_file, environ, server_kbs, exit_code, lister,
                   picked, requests, caller, name, kb, kb_id, page_size, page,
                   all_docs, docs, displayed, file>>

KbsRecv == \E a \in KbAnswers : KbsAnswered(a)

\* (variant: a case-sensitive test)
NameMatchesMut(n, entry) == IsSubstring(n, GetOr(entry.name, <<>>))
\* line 122: the test applied to one entry
NameMatches(n, entry) == IsSubstring(Lower(n), Lower(GetOr(entry.name, <<>>)))

\* lines 121-124: the loop over the entries, from entry i on
RECURSIVE ScanKbs(_, _, _)
ScanKbs(n, list, i) ==
    IF i > Len(list) THEN None
    ELSE IF NameMatches(n, list[i]) THEN Some(list[i])
    ELSE ScanKbs(n, list, i + 1)

\* lines 120-124: get_kb_by_name once list_knowledge_bases has returned
GetKbByName ==
    /\ pc = "kbs_returned"
    /\ caller = "get_kb_by_name"
    /\ kb' = ScanKbs(name, Val(kbs), 1)
    /\ pc' = "lookup_returned"
    /\ UNCHANGED <<args, config_file, environ, server_kbs, exc, exit_code, lister,
                   picked, requests, responses, caller, name, kbs, kb_id,
                   page_size, page, all_docs, docs, stdout, displayed, file>>

----------------------------------------------------------------------------
(* Document pagination.                                                    *)

\* line 126
DefaultPageSize == 100

DocIds == {1, 2}

\* The pages the server may return for page p of size ps: for a small page
\* size every sequence of at most ps documents and one over-full page; for a
\* large one an empty, a short and a full page of that page's own documents.
ServerPages(ps, p) ==
    IF ps <= MaxPageSize
    THEN SeqsUpTo(DocIds, ps) \cup {[i \in 1..(ps + 1) |-> 1]}
    ELSE {[i \in 1..n |-> (p - 1) * ps + i] : n \in {0, ShortPageLen, ps}}

DocAnswers(ps, p) ==
    {Answer("ok", Some(0), Some(d)) : d \in ServerPages(ps, p)}
        \cup {Answer("ok", Some(0), None)} \cup ErrorAnswers

\* line 149
DocCodeOk(a) == a.code = Some(0)

\* (variant: a full page is taken for the last one)
IsLastPageMut(ds, ps) == Len(ds) <= ps
\* line 160
IsLastPage(ds, ps) == Len(ds) < ps

\* (variant: the page number is not advanced)
NextPageMut(p) == p
\* line 163
NextPage(p) == p + 1

\* (variant: no handler around the request)
ListDocsCatchesMut(e) == FALSE
\* line 168: except Exception
ListDocsCatches(e) == IsException(e)

\* line 156
Extend(acc, ds) == acc \o ds

\* lines 142-170: one iteration of the loop on the answer a; again says
\* whether the loop goes round once more
ListDocumentsIteration(a, acc, p, ps) ==
    LET r == RequestOutcome(a)
        ds == GetOr(a.data, <<>>)
    IN  IF r.raised
        THEN IF ListDocsCatches(Val(r.exc))
             THEN [all_docs |-> acc, page |-> p, again |-> FALSE, exc |-> None,
                   out |-> r.out \o <<"docs_failed">>]
             ELSE [all_docs |-> acc, page |-> p, again |-> FALSE, exc |-> r.exc,
                   out |-> r.out]
        ELSE IF ~DocCodeOk(a)
             THEN [all_docs |-> acc, page |-> p, again |-> FALSE, exc |-> None,
                   out |-> <<"api_error">>]
        ELSE IF ds = <<>>
             THEN [all_docs |-> acc, page |-> p, again |-> FALSE, exc |-> None,
                   out |-> <<>>]
        ELSE IF IsLastPage(ds, ps)
             THEN [all_docs |-> Extend(acc, ds), page |-> p, again |-> FALSE,
                   exc |-> None, out |-> <<"progress">>]
        ELSE [all_docs |-> Extend(acc, ds), page |-> NextPage(p), again |-> TRUE,
              exc |-> None, out |-> <<"progress">>]

\* lines 136-139
ListDocumentsEnter ==
    /\ pc = "ld_enter"
    /\ all_docs' = <<>>
    /\ page' = 1
    /\ stdout' = Append(stdout, "fetching")
    /\ pc' = "docs_send"
    /\ UNCHANGED <<args, config_file, environ, server_kbs, exc, exit_code, lister,
                   picked, requests, responses, caller, name, kbs, kb, kb_id,
                   page_size, docs, displayed, file>>

\* lines 143-147, 88-92
DocsSend ==
    /\ pc = "docs_send"
    /\ page <= MaxPages
    /\ requests' = Append(requests,
          HttpRequest("documents",
                      <<"/", "datasets", "/">> \o Val(kb_id) \o <<"/", "documents">>,
                      kb_id, page, page_size))
    /\ pc' = "docs_wait"
    /\ UNCHANGED <<args, config_file, environ, server_kbs, exc, exit_code, lister,
                   picked, responses, caller, name, kbs, kb, kb_id, page_size,
                   page, all_docs, docs, stdout, displayed, file>>

\* lines 92-97, 149-173: the rest of the iteration on the answer a, and the
\* return when the loop is left
DocsAnswered(a) ==
    /\ pc = "docs_wait"
    /\ LET it == ListDocumentsIteration(a, all_docs, page, page_size)
       IN  /\ responses' = Append(responses, a)
           /\ all_docs' = it.all_docs
           /\ page' = it.page
           /\ exc' = it.exc
           /\ IF it.exc # None
              THEN /\ pc' = "raised"
                   /\ stdout' = stdout \o it.out
                   /\ UNCHANGED docs
              ELSE IF it.again
              THEN /\ pc' = "docs_send"
                   /\ stdout' = stdout \o it.out
                   /\ UNCHANGED docs
              ELSE /\ pc' = "ld_returned"
                   /\ stdout' = stdout \o it.out \o <<"fetched_total">>
                   /\ docs' = Some(it.all_docs)
    /\ UNCHANGED <<args, config_file, environ, server_kbs, exit_code, lister,
                   picked, requests, caller, name, kbs, kb, kb_id, page_size,
                   displayed, file>>

DocsRecv == \E a \in DocAnswers(page_size, page) : DocsAnswered(a)

----------------------------------------------------------------------------
(* Presenter and file writer.                                              *)

\* lines 183-234: what display_documents prints: the notice for an empty
\* list, else the documents in the chosen layout
DisplayDocuments(ds, format_type, brief) ==
    IF ds = <<>> THEN [out |-> <<"no_documents">>, view |-> None]
    ELSE IF brief THEN [out |-> <<>>, view |-> Some([layout |-> "brief", rows |-> ds])]
    ELSE [out |-> <<>>, view |-> Some([layout |-> format_type, rows |-> ds])]

\* lines 246-261: the layout save_to_file writes: anything but json and csv
\* is the text layout
FileLayout(format_type) ==
    IF format_type \in {"json", "csv"} THEN format_type ELSE "txt"

\* lines 244-274: save_to_file; opened says whether the file could be
\* written, a failure being reported and swallowed
SaveToFile(ds, output_file, format_type, opened) ==
    IF opened
    THEN [out |-> <<"saved">>,
          file |-> Some([path |-> output_file, layout |-> FileLayout(format_type),
                         rows |-> ds])]
    ELSE [out |-> <<"save_failed">>, file |-> None]

----------------------------------------------------------------------------
(* The command-line program.                                               *)

\* a process that returns from main ends with exit code 0
Exit(code) == pc' = "exit" /\ exit_code' = Some(code)

\* lines 308-310
MainListKbs ==
    /\ pc = "constructed"
    /\ args.list_kbs
    /\ stdout' = Append(stdout, "kb_list_header")
    /\ caller' = "main"
    /\ pc' = "kbs_send"
    /\ UNCHANGED <<args, config_file, environ, server_kbs, exc, exit_code, lister,
                   picked, requests, responses, name, kbs, kb, kb_id, page_size,
                   page, all_docs, docs, displayed, file>>

\* lines 312-326
MainShowKbs ==
    /\ pc = "kbs_returned"
    /\ caller = "main"
    /\ stdout' = Append(stdout, IF Val(kbs) = <<>> THEN "no_kbs" ELSE "kb_table")
    /\ Exit(0)
    /\ UNCHANGED <<args, config_file, environ, server_kbs, exc, lister, picked,
                   requests, responses, caller, name, kbs, kb, kb_id, page_size,
                   page, all_docs, docs, displayed, file>>

\* line 332: whether the name lookup runs
UseNameLookup(a) == Truthy(a.kb_name)

\* lines 329-334
MainResolveKb ==
    /\ pc = "constructed"
    /\ ~args.list_kbs
    /\ kb_id' = args.kb_id
    /\ IF UseNameLookup(args)
       THEN /\ stdout' = Append(stdout, "searching")
            /\ name' = Val(args.kb_name)
            /\ caller' = "get_kb_by_name"
            /\ pc' = "kbs_send"
       ELSE /\ pc' = "check_kb_id"
            /\ UNCHANGED <<stdout, name, caller>>
    /\ UNCHANGED <<args, config_file, environ, server_kbs, exc, exit_code, lister,
                   picked, requests, responses, kbs, kb, page_size, page,
                   all_docs, docs, displayed, file>>

\* line 335: the truth value of get_kb_by_name's result: None and the empty
\* dict are false
KbFound(k) == k # None /\ (Val(k).id # None \/ Val(k).name # None)

\* (variant: a given --kb-id is kept)
IdOfKbMut(k, cli_id) == IF Truthy(cli_id) THEN cli_id ELSE Val(k).id
\* line 336
IdOfKb(k, cli_id) == Val(k).id

\* lines 335-341
MainAfterLookup ==
    /\ pc = "lookup_returned"
    /\ IF KbFound(kb)
       THEN /\ kb_id' = IdOfKb(kb, kb_id)
            /\ stdout' = Append(stdout, "kb_found")
            /\ pc' = "check_kb_id"
            /\ UNCHANGED exit_code
       ELSE /\ stdout' = stdout \o <<"kb_not_found", "hint">>
            /\ Exit(0)
            /\ UNCHANGED kb_id
    /\ UNCHANGED <<args, config_file, environ, server_kbs, exc, lister, picked,
                   requests, responses, caller, name, kbs, kb, page_size, page,
                   all_docs, docs, displayed, file>>

\* lines 343-349: without a knowledge-base id the usage is printed, else
\* list_documents is called with its default page size
MainCheckKbId ==
    /\ pc = "check_kb_id"
    /\ IF ~Truthy(kb_id)
       THEN /\ stdout' = stdout \o <<"help", "need_kb">>
            /\ Exit(0)
            /\ UNCHANGED page_size
       ELSE /\ page_size' = DefaultPageSize
            /\ pc' = "ld_enter"
            /\ UNCHANGED <<stdout, exit_code>>
    /\ UNCHANGED <<args, config_file, environ, server_kbs, exc, lister, picked,
                   requests, responses, caller, name, kbs, kb, kb_id, page,
                   all_docs, docs, displayed, file>>

\* line 351
ShowsDocuments(ds) == ds # <<>>

\* lines 349-356: the documents are displayed, and saved when --output is
\* given, only if there are any
MainDisplaySave ==
    /\ pc = "ld_returned"
    /\ LET ds == Val(docs)
           shown == DisplayDocuments(ds, args.format, args.brief)
       IN  IF ShowsDocuments(ds)
           THEN /\ displayed' = shown.view
                /\ IF Truthy(args.output)
                   THEN \E opened \in BOOLEAN :
                          LET saved == SaveToFile(ds, Val(args.output), args.format, opened)
                          IN  /\ file' = saved.file
                              /\ stdout' = stdout \o shown.out \o saved.out
                   ELSE /\ stdout' = stdout \o shown.out
                        /\ UNCHANGED file
           ELSE UNCHANGED <<displayed, file, stdout>>
    /\ Exit(0)
    /\ UNCHANGED <<args, config_file, environ, server_kbs, exc, lister, picked,
                   requests, responses, caller, name, kbs, kb, kb_id, page_size,
                   page, all_docs, docs>>

\* the user interrupts the program while it waits for the server
Interrupt == KbsAnswered(InterruptEvent) \/ DocsAnswered(InterruptEvent)

\* lines 358-363: the top level's handlers
MainExcept ==
    /\ pc = "raised"
    /\ IF Val(exc) = KeyboardInterrupt
       THEN stdout' = Append(stdout, "interrupted") /\ Exit(0)
       ELSE stdout' = Append(stdout, "error") /\ Exit(1)
    /\ UNCHANGED <<args, config_file, environ, server_kbs, exc, lister, picked,
                   requests, responses, caller, name, kbs, kb, kb_id, page_size,
                   page, all_docs, docs, displayed, file>>

----------------------------------------------------------------------------
(* Initial states and specifications.                                      *)

NoArgs ==
    [kb_id |-> None, kb_name |-> None, list_kbs |-> FALSE, format |-> "table",
     brief |-> FALSE, output |-> None, api_url |-> None, api_key |-> None]
NoConfigFile == [kind |-> "missing", api_url |-> None, api_key |-> None]
NoEnviron == [RAGFLOW_API_URL |-> None, RAGFLOW_API_KEY |-> None]

\* a DocumentLister already constructed, for the calls of its methods
ALister == Some([api_url |-> <<"http://server", "/", "api">>, api_key |-> <<"key">>])

\* everything the program has not touched yet
Fresh ==
    /\ exc = None /\ exit_code = None /\ picked = None
    /\ requests = <<>> /\ responses = <<>>
    /\ kbs = None /\ kb = None
    /\ page = 0 /\ all_docs = <<>> /\ docs = None
    /\ stdout = <<>> /\ displayed = None /\ file = None

\* the values a source may hold for the api_url and the api_key field:
\* absent, empty, or a value of its own
UrlInputs(src) ==
    {None, Some(<<>>), Some(<<"http://" \o src>>), Some(<<"http://" \o src, "/">>),
     Some(<<"http://" \o src, "/", "/">>)}
KeyInputs(src) == {None, Some(<<>>), Some(<<"key-" \o src>>)}

ConfigFiles ==
    {NoConfigFile, [kind |-> "unreadable", api_url |-> None, api_key |-> None]}
        \cup [kind : {"dict"}, api_url : UrlInputs("file"), api_key : KeyInputs("file")]

\* DocumentLister(api_url, api_key, config_file) on every combination of sources
InitConfig ==
    /\ args \in {[NoArgs EXCEPT !.api_url = u, !.api_key = k] :
                    u \in UrlInputs("flag"), k \in KeyInputs("flag")}
    /\ config_file \in ConfigFiles
    /\ environ \in [RAGFLOW_API_URL : UrlInputs("env"), RAGFLOW_API_KEY : KeyInputs("env")]
    /\ server_kbs = <<>>
    /\ pc = "start" /\ lister = None
    /\ name = <<>> /\ kb_id = None /\ page_size = 0 /\ caller = ""
    /\ Fresh

NextConfig == Construct

SpecConfig == InitConfig /\ [][NextConfig]_vars

\* the characters of names, and the names the server's entries may carry
\* (None: an entry with no name field)
Chars == {"A", "a", "b"}
KbNames ==
    {None, Some(<<>>), Some(<<"a">>), Some(<<"A">>), Some(<<"b">>),
     Some(<<"A", "b">>), Some(<<"b", "A">>), Some(<<"b", "b">>)}

\* lister.get_kb_by_name(name) against every small collection
InitLookup ==
    /\ args = NoArgs /\ config_file = NoConfigFile /\ environ = NoEnviron
    /\ server_kbs \in {KbListOf(ns) : ns \in SeqsUpTo(KbNames, MaxKbs)}
    /\ name \in SeqsUpTo(Chars, MaxNameLen)
    /\ pc = "kbs_send" /\ lister = ALister
    /\ kb_id = None /\ page_size = 0
    /\ caller = "get_kb_by_name"
    /\ Fresh

NextLookup == KbsSend \/ KbsRecv \/ GetKbByName

SpecLookup == InitLookup /\ [][NextLookup]_vars

\* lister.list_documents(kb_id, page_size) for every small page size and
\* the default one
InitPager ==
    /\ args = NoArgs /\ config_file = NoConfigFile /\ environ = NoEnviron
    /\ server_kbs = <<>>
    /\ page_size \in (1..MaxPageSize) \cup {DefaultPageSize}
    /\ kb_id = Some(KbIdAt(1))
    /\ pc = "ld_enter" /\ lister = ALister
    /\ name = <<>> /\ caller = ""
    /\ Fresh

NextPager == ListDocumentsEnter \/ DocsSend \/ DocsRecv

SpecPager == InitPager /\ [][NextPager]_vars

\* the command lines, configurations and collections main is run on
CliArgs ==
    [kb_id : {None, Some(<<"cli-id">>)},
     kb_name : {None, Some(<<"a">>), Some(<<"z">>)},
     list_kbs : BOOLEAN,
     format : {"table", "json", "csv"},
     brief : BOOLEAN,
     output : {None, Some(<<"out.txt">>)},
     api_url : {None},
     api_key : {None, Some(<<"key-flag">>)}]
CliConfigFiles ==
    {NoConfigFile, [kind |-> "dict", api_url |-> Some(<<"http://file", "/">>),
                    api_key |-> Some(<<"key-file">>)]}
CliEnvirons ==
    [RAGFLOW_API_URL : {None}, RAGFLOW_API_KEY : {None, Some(<<>>), Some(<<"key-env">>)}]
CliKbLists ==
    { <<>>,
      KbListOf(<<Some(<<"b">>), Some(<<"b", "A">>), Some(<<"a">>)>>),
      <<[id |-> None, name |-> Some(<<"A">>)]>>,
      <<[id |-> Some(<<"cli-id">>), name |-> None],
        [id |-> Some(<<>>), name |-> Some(<<"a", "b">>)]>> }

Init ==
    /\ args \in CliArgs
    /\ config_file \in CliConfigFiles
    /\ environ \in CliEnvirons
    /\ server_kbs \in CliKbLists
    /\ pc = "start" /\ lister = None
    /\ name = <<>> /\ kb_id = None /\ page_size = 0 /\ caller = ""
    /\ Fresh

Next ==
    \/ Construct
    \/ MainListKbs \/ KbsSend \/ KbsRecv \/ MainShowKbs
    \/ MainResolveKb \/ GetKbByName \/ MainAfterLookup \/ MainCheckKbId
    \/ ListDocumentsEnter \/ DocsSend \/ DocsRecv
    \/ MainDisplaySave
    \/ Interrupt
    \/ MainExcept

Spec == Init /\ [][Next]_vars

----------------------------------------------------------------------------
(* Properties.                                                             *)

Range(s) == {s[i] : i \in 1..Len(s)}
RECURSIVE Concat(_)
Concat(ss) == IF ss = <<>> THEN <<>> ELSE Head(ss) \o Concat(Tail(ss))
NoDuplicates(s) == \A i, j \in 1..Len(s) : i # j => s[i] # s[j]
IsError(a) == IsAppError(a) \/ IsTransportError(a)

\* the documents carried by the i-th answer, none when it is no success
PageOf(i) ==
    IF IsSuccess(responses[i]) THEN GetOr(responses[i].data, <<>>) ELSE <<>>
Pages(n) == [i \in 1..n |-> PageOf(i)]
AllSuccess == \A i \in 1..Len(responses) : IsSuccess(responses[i])
RequestsArePages(n) ==
    /\ Len(requests) = n
    /\ \A i \in 1..n : /\ requests[i].endpoint = "documents"
                       /\ requests[i].page = i
                       /\ requests[i].page_size = page_size
                       /\ requests[i].kb_id = kb_id

\* C1: when every answer is a success, list_documents requests exactly the
\* pages 1..k, k being the first page with fewer than page_size documents,
\* and returns the concatenation of the pages 1..k; until such a page has
\* come it has not returned.
C1_PaginationStopsAtFirstShortPage ==
    AllSuccess =>
        /\ pc = "ld_returned" =>
             LET k == Len(responses)
             IN  /\ k >= 1
                 /\ RequestsArePages(k)
                 /\ \A i \in 1..(k - 1) : Len(PageOf(i)) >= page_size
                 /\ Len(PageOf(k)) < page_size
                 /\ docs = Some(Concat(Pages(k)))
        /\ pc \in {"docs_send", "docs_wait"} =>
             \A i \in 1..Len(responses) : Len(PageOf(i)) >= page_size

\* pages of sizes 100, 100, 37 with page size 100: 3 requests, 237 documents
C1_Witness ==
    /\ pc = "ld_returned" /\ AllSuccess
    /\ page_size = DefaultPageSize
    /\ Len(requests) = 3
    /\ Len(PageOf(1)) = page_size /\ Len(PageOf(2)) = page_size
    /\ Len(PageOf(3)) = ShortPageLen
    /\ Len(Val(docs)) = 2 * DefaultPageSize + ShortPageLen

\* C2: an application error or a transport error on page k ends
\* list_documents: no request follows it, nothing is raised, and the
\* documents of the pages 1..k-1 are returned.
C2_ErrorReturnsPartial ==
    \A k \in 1..Len(responses) :
        IsError(responses[k]) =>
            /\ Len(responses) = k
            /\ RequestsArePages(k)
            /\ \A i \in 1..(k - 1) : IsSuccess(responses[i]) /\ Len(PageOf(i)) >= page_size
            /\ pc = "ld_returned"
            /\ exc = None
            /\ docs = Some(Concat(Pages(k - 1)))

\* page 2 answers with an application error: page 1's documents are returned
C2_Witness ==
    /\ Len(responses) = 2
    /\ IsAppError(responses[2])
    /\ pc = "ld_returned"
    /\ docs = Some(PageOf(1))
    /\ Len(Val(docs)) = page_size

\* C3: the pages requested so far are 1, 2, ..., n in this order, each once,
\* and the accumulator is the concatenation, in the server's order, of the
\* pages returned with success; so disjoint pages give no duplicates.
C3_PagesInOrderAccumulatorIsConcat ==
    /\ pc # "ld_enter" =>
         /\ RequestsArePages(Len(requests))
         /\ Len(requests) = Len(responses) + (IF pc = "docs_wait" THEN 1 ELSE 0)
         /\ all_docs = Concat(Pages(Len(responses)))
         /\ docs # None => docs = Some(all_docs)
         /\ (/\ \A i \in 1..Len(responses) : NoDuplicates(PageOf(i))
             /\ \A i, j \in 1..Len(responses) :
                    i # j => Range(PageOf(i)) \cap Range(PageOf(j)) = {})
            => NoDuplicates(all_docs)

C3_Witness ==
    /\ pc = "docs_wait"
    /\ Len(requests) = 3
    /\ requests[3].page = 3
    /\ all_docs = <<1, 2, 2, 1>>

\* the value a configuration file contributes to a field
FileValue(cfg, fld) == IF cfg.kind = "dict" THEN cfg[fld] ELSE None

\* the first non-empty value of the sources in order, None when there is none
FirstNonEmpty(srcs) ==
    LET full == {i \in 1..Len(srcs) : Truthy(srcs[i])}
    IN  IF full = {} THEN None
        ELSE srcs[CHOOSE i \in full : \A j \in full : i <= j]

UrlSources == <<args.api_url, FileValue(config_file, "api_url"), environ.RAGFLOW_API_URL>>
KeySources == <<args.api_key, FileValue(config_file, "api_key"), environ.RAGFLOW_API_KEY>>

\* C4: for the api_url and for the api_key, each on its own, the resolver
\* picks the first non-empty value of argument, file field and environment
\* variable, the api_url falling back on the default; a missing or unreadable
\* file contributes nothing.
C4_ResolutionOrder ==
    picked # None =>
        /\ Val(picked).api_url =
             (IF FirstNonEmpty(UrlSources) = None THEN Some(DefaultApiUrl)
              ELSE FirstNonEmpty(UrlSources))
        /\ IF FirstNonEmpty(KeySources) = None
           THEN ~Truthy(Val(picked).api_key) /\ lister = None
           ELSE /\ Val(picked).api_key = FirstNonEmpty(KeySources)
                /\ lister = Some([api_url |-> RStrip(Val(Val(picked).api_url)),
                                  api_key |-> Val(FirstNonEmpty(KeySources))])

\* an empty --api-url, an unreadable file: both fields come from the environment
C4_Witness ==
    /\ pc = "constructed"
    /\ args.api_url = Some(<<>>) /\ args.api_key = None
    /\ config_file.kind = "unreadable"
    /\ Val(picked).api_url = Some(<<"http://env", "/">>)
    /\ lister = Some([api_url |-> <<"http://env">>, api_key |-> <<"key-env">>])

NoKeyResolvable == FirstNonEmpty(KeySources) = None

\* C5: when no source holds a non-empty API key, construction fails with
\* the configuration error, no HTTP request is issued whatever the other
\* flags are, and the process exits with code 1.
C5_NoKeyNoRequestExitOne ==
    NoKeyResolvable =>
        /\ requests = <<>>
        /\ lister = None
        /\ pc \in {"start", "raised", "exit"}
        /\ pc = "raised" => exc = Some("ValueError")
        /\ pc = "exit" => exit_code = Some(1)

C5_Witness ==
    /\ NoKeyResolvable
    /\ args.list_kbs
    /\ environ.RAGFLOW_API_KEY = Some(<<>>)
    /\ pc = "exit" /\ exit_code = Some(1)
    /\ requests = <<>>

\* two characters that differ at most in case
SameLetter(c, d) == c = d \/ {c, d} = {"A", "a"} \/ {c, d} = {"B", "b"}

\* n occurs in t as a substring, the case of letters ignored
ContainsIgnoringCase(n, t) ==
    \E i \in 0..(Len(t) - Len(n)) : \A j \in 1..Len(n) : SameLetter(n[j], t[i + j])

\* the list the server returned, empty when its answer was no success
ReturnedKbs == IF IsSuccess(responses[1]) THEN GetOr(responses[1].data, <<>>) ELSE <<>>

MatchingEntries ==
    {i \in 1..Len(ReturnedKbs) :
        ContainsIgnoringCase(name, GetOr(ReturnedKbs[i].name, <<>>))}

\* C6: get_kb_by_name issues one knowledge-base list request and returns
\* the entry of smallest index whose name contains the searched name, case
\* ignored; it returns None exactly when no entry matches.
C6_FirstCaseInsensitiveMatch ==
    pc = "lookup_returned" =>
        /\ Len(requests) = 1
        /\ requests[1].endpoint = "datasets"
        /\ IF MatchingEntries = {} THEN kb = None
           ELSE kb = Some(ReturnedKbs[CHOOSE i \in MatchingEntries :
                                          \A j \in MatchingEntries : i <= j])

\* names "b", "bA" searched for "a": the second entry is returned
C6_Witness ==
    /\ pc = "lookup_returned"
    /\ name = <<"a">>
    /\ Len(server_kbs) = 2
    /\ server_kbs[1].name = Some(<<"b">>) /\ server_kbs[2].name = Some(<<"b", "A">>)
    /\ kb = Some(server_kbs[2])

\* C7: list_knowledge_bases issues exactly one request, to the collection
\* endpoint, and never raises: it returns the server's data on code 0 and
\* the empty list on an application error or a transport error.
C7_ListKbsOneRequestNoRaise ==
    /\ Len(requests) <= 1
    /\ pc # "raised" /\ exc = None
    /\ responses # <<>> =>
         /\ Len(requests) = 1 /\ Len(responses) = 1
         /\ requests[1].endpoint = "datasets"
         /\ requests[1].url = <<"http://server", "/", "api", "/", "datasets">>
         /\ kbs = Some(ReturnedKbs)

C7_Witness ==
    /\ pc = "kbs_returned"
    /\ server_kbs # <<>>
    /\ IsTransportError(responses[1])
    /\ kbs = Some(<<>>)

BothGiven == Truthy(args.kb_name) /\ Truthy(args.kb_id) /\ ~args.list_kbs

\* C8: with --kb-name and --kb-id both given, the name lookup runs first
\* and every document request carries the id of the knowledge base found by
\* name; when none is found no document request is issued.
C8_NameLookupOverridesId ==
    BothGiven =>
        /\ \A i \in 1..Len(requests) :
              requests[i].endpoint = "documents" =>
                  /\ i > 1 /\ requests[1].endpoint = "datasets"
                  /\ KbFound(kb)
                  /\ requests[i].kb_id = Val(kb).id
        /\ ~KbFound(kb) =>
              pc \notin {"check_kb_id", "ld_enter", "docs_send", "docs_wait", "ld_returned"}

C8_Witness ==
    /\ BothGiven
    /\ pc = "exit"
    /\ Len(requests) >= 2
    /\ requests[2].endpoint = "documents"
    /\ requests[2].kb_id = Some(KbIdAt(2))
    /\ requests[2].kb_id # args.kb_id

\* C9: a run whose document fetch yields no document prints the "no
\* documents" notice, and writes no rows to the --output file.
C9_EmptyListNotice ==
    (pc = "exit" /\ docs = Some(<<>>)) =>
        /\ "no_documents" \in Range(stdout)
        /\ file # None => Val(file).rows = <<>>

\* C10: once the DocumentLister is constructed, no transport error and no
\* application error of the listing or of the pagination reaches the top
\* level: the run never ends with exit code 1.
C10_HttpErrorsNeverExitOne ==
    lister # None =>
        /\ exit_code \in {None, Some(0)}
        /\ exc \in {None, Some(KeyboardInterrupt)}

\* a transport error on page 2: page 1's documents, exit code 0
C10_Witness ==
    /\ pc = "exit" /\ exit_code = Some(0)
    /\ Len(responses) = 2
    /\ IsTransportError(responses[2])
    /\ Len(Val(docs)) = DefaultPageSize
    /\ displayed # None

====
